---- MODULE Spec2Model ----
(***************************************************************************)
(* Model of src/app.js: the DelayedTask timer wrapper, DelayedTaskFactory,  *)
(* GithubService.searchByKeywordWithPaging and the SearchController state   *)
(* machine (conductSearch, fetchMoreResults and their promise handlers).    *)
(*                                                                         *)
(* JavaScript is run-to-completion: every action below is one event-loop    *)
(* task (a scope method call, a timer callback, an HTTP completion) or the  *)
(* digest that runs the handlers of a promise that has settled.             *)
(***************************************************************************)
EXTENDS Integers, Sequences, FiniteSets, TLC

-----------------------------------------------------------------------------
(* Program constants                                                        *)

PAGE_LIMIT == 10
START_PAGE == 1

(* Bounds of the model                                                      *)

MaxJobs == 2        \* StructuredDelayedTask objects alive at the same time
MaxTermLen == 1     \* characters of $scope.searchTerm
MaxBatch == 2       \* repositories in one HTTP response
MaxResults == 1     \* length of $scope.searchResults, any caller
MaxGatedResults == 3 \* length of $scope.searchResults, caller keeping to the gate

-----------------------------------------------------------------------------
(* Values                                                                   *)

Alphabet == {"a", " "}

Terms == UNION {[1..n -> Alphabet] : n \in 0..MaxTermLen}

\* $scope.searchTerm before the view has written it
UndefinedTerm == <<"undefined">>

\* $scope.error: undefined after construction, null after resetErrorState
UndefinedError == [kind |-> "undefined"]
NullError == [kind |-> "null"]

\* response.data of a failed $http.get
TransportPayloads == {[kind |-> "transport"]}

JobIds == 1..MaxJobs

\* DelayedTask objects: 0 is the service's dummyDelayedTask, j is the task
\* DelayedTaskFactory.create made for the job in slot j
DummyTask == 0
TaskRefs == {DummyTask} \cup JobIds

NoJob == [kind |-> "none"]

VARIABLES
    taskID,                 \* taskID[t]: the closure variable of DelayedTask t (0: undefined/null)
    timers,                 \* pending browser timers: pairs <<id, task whose job it invokes>>
    thrown,                 \* exception that left the last event-loop task ("none" if none)
    jobs,                   \* jobs[j]: the StructuredDelayedTask in slot j with its promise, or NoJob
    delayedJob,             \* controller: slot of delayedJob (0: undefined/null)
    currentPage,
    searchTerm,
    searchResults,
    canInitiateRequests,
    fetchingMoreResults,
    canLoadMore,            \* "undefined", "true" or "false"
    error

taskVars == <<taskID, timers, thrown>>
ctrlVars == <<jobs, delayedJob, currentPage, searchTerm, searchResults,
              canInitiateRequests, fetchingMoreResults, canLoadMore, error>>
vars == <<taskID, timers, thrown, jobs, delayedJob, currentPage, searchTerm,
          searchResults, canInitiateRequests, fetchingMoreResults, canLoadMore, error>>

-----------------------------------------------------------------------------
(* DelayedTask (src/app.js 45-63). A heap h is [taskID, timers, thrown].    *)

Heap == [taskID |-> taskID, timers |-> timers, thrown |-> "none"]

TimerIdsInUse(h) == {tm[1] : tm \in h.timers} \cup {h.taskID[t] : t \in TaskRefs}

\* setTimeout returns an id no pending timer and no DelayedTask holds. Ids are
\* opaque and only compared with ids still held, so the smallest such id stands
\* for the browser's next one.
setTimeout(h) == CHOOSE id \in 1..(Cardinality(TaskRefs) + 1) : id \notin TimerIdsInUse(h)

\* clearInterval(id): browsers keep one id pool for timeouts and intervals
clearInterval(tms, id) == {tm \in tms : tm[1] # id}

schedule(h, t) ==
    IF h.taskID[t] # 0
    THEN [h EXCEPT !.thrown = "TASK ALREADY SCHEDULED"]
    ELSE LET id == setTimeout(h)
         IN [h EXCEPT !.taskID[t] = id, !.timers = h.timers \cup {<<id, t>>}]

\* Mutant: cancel() forgets the handle without clearing the timer
cancel_KeepsTimer(h, t) ==
    IF h.taskID[t] # 0
    THEN [h EXCEPT !.taskID[t] = 0]
    ELSE h

cancel(h, t) ==
    IF h.taskID[t] # 0
    THEN [h EXCEPT !.timers = clearInterval(h.timers, h.taskID[t]), !.taskID[t] = 0]
    ELSE h

\* The timer callback leaves taskID alone: nothing in DelayedTask clears it on firing.
fire(tms, tm) == tms \ {tm}

-----------------------------------------------------------------------------
(* Strings are sequences of characters                                      *)

RECURSIVE split(_, _)
\* String.prototype.split with a one-character separator
split(s, sep) ==
    IF s = <<>> THEN << <<>> >>
    ELSE IF Head(s) = sep THEN << <<>> >> \o split(Tail(s), sep)
    ELSE LET rest == split(Tail(s), sep)
         IN  << <<Head(s)>> \o Head(rest) >> \o Tail(rest)

RECURSIVE join(_, _)
\* Array.prototype.join of a non-empty array of strings
join(parts, glue) ==
    IF Len(parts) = 1 THEN parts[1]
    ELSE parts[1] \o <<glue>> \o join(Tail(parts), glue)

getFormattedInput(term) == join(split(term, " "), "+")

-----------------------------------------------------------------------------
(* DelayedTaskFactory and GithubService (src/app.js 76-174)                 *)

\* The StructuredDelayedTask of create(job, delay): a fresh DelayedTask in
\* slot, whose job is the closure searchGitHubRepos(keyword, pageNumber), and
\* the promise of a fresh deferred.
create(slot, keyword, pageNumber) ==
    [handle |-> slot, promise |-> "pending", value |-> <<>>,
     term |-> keyword, page |-> pageNumber, http |-> "none"]

\* Mutant: the lower end of the paging window is not checked
PagingValueIsInvalid_NoLowerBound(pageNumber) ==
    pageNumber > PAGE_LIMIT

PagingValueIsInvalid(pageNumber) ==
    pageNumber > PAGE_LIMIT \/ pageNumber < START_PAGE

InvalidPagingMessage(keyword, pageNumber) ==
    [kind |-> "INVALID PAGING VALUE", page |-> pageNumber, keyword |-> keyword]

\* Mutant: the service calls schedule() on a task it has already scheduled
searchByKeywordWithPaging_SchedulesTwice(h, slot, keyword, pageNumber) ==
    IF PagingValueIsInvalid(pageNumber)
    THEN [heap |-> h,
          task |-> [handle |-> DummyTask, promise |-> "rejected",
                    value |-> InvalidPagingMessage(keyword, pageNumber),
                    term |-> keyword, page |-> pageNumber, http |-> "none"]]
    ELSE LET delayedTask == create(slot, keyword, pageNumber)
         IN  [heap |-> schedule(schedule(h, delayedTask.handle), delayedTask.handle),
              task |-> delayedTask]

\* Returns the heap after the call and the StructuredDelayedTask returned.
searchByKeywordWithPaging(h, slot, keyword, pageNumber) ==
    IF PagingValueIsInvalid(pageNumber)
    THEN [heap |-> h,
          task |-> [handle |-> DummyTask, promise |-> "rejected",
                    value |-> InvalidPagingMessage(keyword, pageNumber),
                    term |-> keyword, page |-> pageNumber, http |-> "none"]]
    ELSE LET delayedTask == create(slot, keyword, pageNumber)
         IN  [heap |-> schedule(h, delayedTask.handle), task |-> delayedTask]

\* The body of a successful response for page targetPage of term: n raw
\* repository records. name stands for the six fields createResultBeans
\* copies, watchers for the fields it drops.
RawRepositories(term, targetPage, n) ==
    [i \in 1..n |-> [name |-> <<term, targetPage, i>>, watchers |-> 0]]

createResultBeans(rawData) ==
    [i \in 1..Len(rawData) |-> [name |-> rawData[i].name]]

-----------------------------------------------------------------------------
(* SearchController (src/app.js 175-306)                                    *)

IsJob(js, j) == js[j].kind # "none"

\* A settled promise whose handler chain has not run yet: the digest that ends
\* the current event-loop task runs it before any other task starts.
Settled(js, j) == IsJob(js, j) /\ js[j].promise # "pending" /\ ~js[j].handled

DigestPending == \E j \in JobIds : Settled(jobs, j)

\* Slots holding no object at the start of the event-loop task
FreeSlots == {j \in JobIds : ~IsJob(jobs, j)}

\* A job object nothing can reach any more: the controller does not hold it, and
\* either its chain has run or its timer was cleared before firing.
Unreachable(js, tms, dj, j) ==
    /\ IsJob(js, j)
    /\ j # dj
    /\ \/ js[j].handled
       \/ /\ js[j].promise = "pending"
          /\ js[j].http = "none"
          /\ \A tm \in tms : tm[2] # j

Collect(js, tms, dj) ==
    [j \in JobIds |-> IF Unreachable(js, tms, dj, j) THEN NoJob ELSE js[j]]

CollectTasks(tid, js, tms, dj) ==
    [t \in TaskRefs |-> IF t \in JobIds /\ Unreachable(js, tms, dj, t) THEN 0 ELSE tid[t]]

\* Mutant: the previous job is left alone when a new one is started
cancelJobIfStillActive_Skips(h, js, dj) == h

cancelJobIfStillActive(h, js, dj) ==
    IF dj # 0 THEN cancel(h, js[dj].handle) ELSE h

resetErrorState == NullError

\* Mutant: a new search keeps the page reached by the previous one
resetPaging_KeepsPage == [currentPage |-> currentPage, canLoadMore |-> "true"]

resetPaging == [currentPage |-> START_PAGE, canLoadMore |-> "true"]

incrementPage(page) == page + 1

decrementPage(page) == page - 1

\* Mutant: the cleanup hook forgets the load-more flag
resetRequestInitiation_KeepsFetching ==
    [canInitiateRequests |-> TRUE, fetchingMoreResults |-> fetchingMoreResults]

resetRequestInitiation == [canInitiateRequests |-> TRUE, fetchingMoreResults |-> FALSE]

\* Mutant: an empty batch leaves load-more enabled
disableLoadMore_StaysTrue == "true"

disableLoadMore == "false"

\* Mutant: the error handler does not keep the payload
onErrorOccurred_Drops(payload) == NullError

onErrorOccurred(payload) == payload

\* Mutant: the handler assigns the batch to the list instead of pushing onto it
onSearchResultsReceived_Replaces(results, loadMore, beans) ==
    IF Len(beans) = 0
    THEN [searchResults |-> results, canLoadMore |-> disableLoadMore]
    ELSE [searchResults |-> beans, canLoadMore |-> loadMore]

\* [searchResults, canLoadMore] after onSearchResultsReceived(beans)
onSearchResultsReceived(results, loadMore, beans) ==
    IF Len(beans) = 0
    THEN [searchResults |-> results, canLoadMore |-> disableLoadMore]
    ELSE [searchResults |-> results \o beans, canLoadMore |-> loadMore]

isAllowedToLoadMore ==
    /\ canLoadMore = "true"
    /\ getFormattedInput(searchTerm) # <<>>
    /\ currentPage <= PAGE_LIMIT
    /\ canInitiateRequests = TRUE
    /\ Len(searchResults) > 0

-----------------------------------------------------------------------------
(* State after construction of the service and the controller               *)

Init ==
    /\ taskID = [t \in TaskRefs |-> 0]
    /\ timers = {}
    /\ thrown = "none"
    /\ jobs = [j \in JobIds |-> NoJob]
    /\ delayedJob = 0
    /\ currentPage = START_PAGE
    /\ searchTerm = UndefinedTerm
    /\ searchResults = <<>>
    /\ canInitiateRequests = TRUE
    /\ fetchingMoreResults = FALSE
    /\ canLoadMore = "undefined"
    /\ error = UndefinedError

-----------------------------------------------------------------------------
(* Event-loop tasks                                                         *)

\* The view writes the bound input into $scope.searchTerm
SetSearchTerm(t) ==
    /\ ~DigestPending
    /\ t # searchTerm
    /\ searchTerm' = t
    /\ thrown' = "none"
    /\ UNCHANGED <<taskID, timers, jobs, delayedJob, currentPage, searchResults,
                   canInitiateRequests, fetchingMoreResults, canLoadMore, error>>

\* The controller state after a scope method that started job in slot
Started(h, js, slot, job) ==
    /\ jobs' = Collect([js EXCEPT ![slot] = job], h.timers, slot)
    /\ taskID' = CollectTasks(h.taskID, [js EXCEPT ![slot] = job], h.timers, slot)
    /\ timers' = h.timers
    /\ thrown' = h.thrown
    /\ delayedJob' = slot

\* $scope.conductSearch() in a task that starts with input in $scope.searchTerm
conductSearchFor(input) ==
    /\ ~DigestPending
    /\ searchTerm' = input
    /\ IF input = UndefinedTerm
       THEN \* undefined.split: TypeError before anything is written
            /\ thrown' = "TypeError"
            /\ UNCHANGED <<taskID, timers, jobs, delayedJob, currentPage, searchResults,
                           canInitiateRequests, fetchingMoreResults, canLoadMore, error>>
       ELSE LET term == getFormattedInput(input)
                h1 == cancelJobIfStillActive(Heap, jobs, delayedJob)
            IN  /\ error' = resetErrorState
                /\ currentPage' = resetPaging.currentPage
                /\ canLoadMore' = resetPaging.canLoadMore
                /\ searchResults' = <<>>
                /\ IF term # <<>>
                   THEN /\ FreeSlots # {}
                        /\ LET slot == CHOOSE j \in FreeSlots : \A k \in FreeSlots : j <= k
                               r == searchByKeywordWithPaging(h1, slot, term, resetPaging.currentPage)
                               job == [kind |-> "search", handled |-> FALSE] @@ r.task
                           IN  Started(r.heap, jobs, slot, job)
                        /\ canInitiateRequests' = FALSE
                        /\ fetchingMoreResults' = FALSE
                   ELSE /\ jobs' = Collect(jobs, h1.timers, 0)
                        /\ taskID' = CollectTasks(h1.taskID, jobs, h1.timers, 0)
                        /\ timers' = h1.timers
                        /\ thrown' = h1.thrown
                        /\ delayedJob' = 0
                        /\ UNCHANGED <<canInitiateRequests, fetchingMoreResults>>

\* $scope.conductSearch()
conductSearch == conductSearchFor(searchTerm)

\* $scope.fetchMoreResults()
fetchMoreResults ==
    /\ ~DigestPending
    /\ IF searchTerm = UndefinedTerm
       THEN /\ thrown' = "TypeError"
            /\ UNCHANGED <<taskID, timers, ctrlVars>>
       ELSE LET term == getFormattedInput(searchTerm)
                h1 == cancelJobIfStillActive(Heap, jobs, delayedJob)
                page == incrementPage(currentPage)
            IN  /\ FreeSlots # {}
                /\ error' = resetErrorState
                /\ currentPage' = page
                /\ LET slot == CHOOSE j \in FreeSlots : \A k \in FreeSlots : j <= k
                       r == searchByKeywordWithPaging(h1, slot, term, page)
                       job == [kind |-> "more", handled |-> FALSE] @@ r.task
                   IN  Started(r.heap, jobs, slot, job)
                /\ canInitiateRequests' = FALSE
                /\ fetchingMoreResults' = TRUE
                /\ UNCHANGED <<searchTerm, searchResults, canLoadMore>>

\* A pending timer fires and invokes the job of its DelayedTask: the wrapper
\* of DelayedTaskFactory.create calls job(), which issues the $http.get, and
\* resolves the deferred with the promise job() returned. A DelayedTask that
\* was not made by the factory has the no-op job.
TimerFire(tm) ==
    /\ ~DigestPending
    /\ tm \in timers
    /\ timers' = fire(timers, tm)
    /\ thrown' = "none"
    /\ jobs' = IF tm[2] \in JobIds /\ IsJob(jobs, tm[2])
               THEN [jobs EXCEPT ![tm[2]].http = "outstanding"]
               ELSE jobs
    /\ UNCHANGED <<taskID, delayedJob, currentPage, searchTerm, searchResults,
                   canInitiateRequests, fetchingMoreResults, canLoadMore, error>>

\* The $http.get of job j succeeds with n repositories: createResultBeans
\* maps them and the job's promise resolves with the beans. The list on the
\* scope is kept within cap records.
HttpSuccessUpTo(j, n, cap) ==
    /\ ~DigestPending
    /\ IsJob(jobs, j)
    /\ jobs[j].http = "outstanding"
    /\ Len(searchResults) + n <= cap
    /\ jobs' = [jobs EXCEPT ![j].http = "done", ![j].promise = "resolved",
                   ![j].value = createResultBeans(RawRepositories(jobs[j].term, jobs[j].page, n))]
    /\ thrown' = "none"
    /\ UNCHANGED <<taskID, timers, delayedJob, currentPage, searchTerm, searchResults,
                   canInitiateRequests, fetchingMoreResults, canLoadMore, error>>

HttpSuccess(j, n) == HttpSuccessUpTo(j, n, MaxResults)

\* The $http.get of job j fails: the service's catch rejects with
\* response.data and the job's promise rejects with it.
HttpFailure(j, payload) ==
    /\ ~DigestPending
    /\ IsJob(jobs, j)
    /\ jobs[j].http = "outstanding"
    /\ jobs' = [jobs EXCEPT ![j].http = "done", ![j].promise = "rejected",
                   ![j].value = payload]
    /\ thrown' = "none"
    /\ UNCHANGED <<taskID, timers, delayedJob, currentPage, searchTerm, searchResults,
                   canInitiateRequests, fetchingMoreResults, canLoadMore, error>>

\* The digest runs the chain attached to the promise of job j:
\* then(onSearchResultsReceived), catch(...), finally(resetRequestInitiation)
Digest(j) ==
    /\ Settled(jobs, j)
    /\ LET job == jobs[j]
           received == onSearchResultsReceived(searchResults, canLoadMore, job.value)
       IN  /\ IF job.promise = "resolved"
              THEN /\ searchResults' = received.searchResults
                   /\ canLoadMore' = received.canLoadMore
                   /\ UNCHANGED <<currentPage, error>>
              ELSE /\ currentPage' = IF job.kind = "more"
                                     THEN decrementPage(currentPage)
                                     ELSE currentPage
                   /\ error' = onErrorOccurred(job.value)
                   /\ UNCHANGED <<searchResults, canLoadMore>>
           /\ canInitiateRequests' = resetRequestInitiation.canInitiateRequests
           /\ fetchingMoreResults' = resetRequestInitiation.fetchingMoreResults
           /\ jobs' = Collect([jobs EXCEPT ![j].handled = TRUE], timers, delayedJob)
           /\ taskID' = CollectTasks(taskID, [jobs EXCEPT ![j].handled = TRUE], timers, delayedJob)
    /\ thrown' = "none"
    /\ UNCHANGED <<timers, delayedJob, searchTerm>>

Next ==
    \/ \E t \in Terms : SetSearchTerm(t)
    \/ conductSearch
    \/ fetchMoreResults
    \/ \E tm \in timers : TimerFire(tm)
    \/ \E j \in JobIds, n \in 0..MaxBatch : HttpSuccess(j, n)
    \/ \E j \in JobIds, payload \in TransportPayloads : HttpFailure(j, payload)
    \/ \E j \in JobIds : Digest(j)

Spec == Init /\ [][Next]_vars

-----------------------------------------------------------------------------
(* DelayedTask on its own: a client calls schedule() and cancel() on the    *)
(* tasks in any order while timers fire.                                    *)

ScheduleTask(t) ==
    /\ taskID' = schedule(Heap, t).taskID
    /\ timers' = schedule(Heap, t).timers
    /\ thrown' = schedule(Heap, t).thrown
    /\ UNCHANGED ctrlVars

CancelTask(t) ==
    /\ taskID' = cancel(Heap, t).taskID
    /\ timers' = cancel(Heap, t).timers
    /\ thrown' = cancel(Heap, t).thrown
    /\ UNCHANGED ctrlVars

TaskNext ==
    \/ \E t \in TaskRefs : ScheduleTask(t)
    \/ \E t \in TaskRefs : CancelTask(t)
    \/ \E tm \in timers : TimerFire(tm)

TaskSpec == Init /\ [][TaskNext]_vars

-----------------------------------------------------------------------------
(* The controller behind a view that keeps to its contract: the input calls *)
(* conductSearch in the task that writes the term, and the load-more        *)
(* control calls fetchMoreResults only while isAllowedToLoadMore() is true. *)

GatedFetchMoreResults == isAllowedToLoadMore /\ fetchMoreResults

GatedNext ==
    \/ \E t \in Terms : conductSearchFor(t)
    \/ GatedFetchMoreResults
    \/ \E tm \in timers : TimerFire(tm)
    \/ \E j \in JobIds, n \in 0..MaxBatch : HttpSuccessUpTo(j, n, MaxGatedResults)
    \/ \E j \in JobIds, payload \in TransportPayloads : HttpFailure(j, payload)
    \/ \E j \in JobIds : Digest(j)

GatedSpec == Init /\ [][GatedNext]_vars

-----------------------------------------------------------------------------
(* Vocabulary of the properties                                             *)

\* The timer of job j is armed
TimerArmed(j) == \E tm \in timers : tm[2] = j

\* The future of job j can still settle
Live(j) ==
    /\ IsJob(jobs, j)
    /\ jobs[j].promise = "pending"
    /\ (TimerArmed(j) \/ jobs[j].http = "outstanding")

\* Job j is not the controller's current job: a later job has replaced it
Superseded(j) == delayedJob # 0 /\ delayedJob # j

\* This step started a job (it is delayedJob in the next state)
JobStarted == delayedJob' # 0 /\ delayedJob' # delayedJob

\* The $http.get of job j returns or fails in this step
HttpReturns(j) ==
    \/ \E n \in 0..MaxBatch : HttpSuccess(j, n)
    \/ \E payload \in TransportPayloads : HttpFailure(j, payload)

IsBlank(term) == \A i \in 1..Len(term) : term[i] = " "

\* DelayedTask t: schedule() was called and no fire or cancel() came since
Armed(t) == taskID[t] # 0 /\ <<taskID[t], t>> \in timers

\* DelayedTask t: its timer has fired and cancel() was not called since
Fired(t) == taskID[t] # 0 /\ <<taskID[t], t>> \notin timers

-----------------------------------------------------------------------------
(* C1: once a new job has been started, the completion of an earlier job    *)
(* changes none of searchResults, error, canLoadMore, currentPage,          *)
(* canInitiateRequests and fetchingMoreResults.                             *)
C1_StaleCompletionHarmless ==
    [][\A j \in JobIds :
          (Settled(jobs, j) /\ Superseded(j)) =>
              UNCHANGED <<searchResults, error, canLoadMore, currentPage,
                          canInitiateRequests, fetchingMoreResults>>]_vars

(* C2: in every reachable state currentPage >= START_PAGE.                  *)
C2_PageAtLeastStart == currentPage >= START_PAGE

(* C3: isAllowedToLoadMore() is true only when searchResults is non-empty,  *)
(* canLoadMore is true, currentPage <= PAGE_LIMIT, no request started by    *)
(* the controller is in flight and the formatted term is non-empty.         *)
C3_AllowedOnlyWhenIdle ==
    isAllowedToLoadMore =>
        /\ searchResults # <<>>
        /\ canLoadMore = "true"
        /\ currentPage <= PAGE_LIMIT
        /\ ~\E j \in JobIds : Live(j)
        /\ getFormattedInput(searchTerm) # <<>>

(* C4: after the error handler of a failed fetchMoreResults job has run,    *)
(* currentPage is the value it had just before that fetchMoreResults call   *)
(* (the page requested minus the increment) and error is the payload.       *)
C4_FailureRestoresPage ==
    [][\A j \in JobIds :
          (Settled(jobs, j) /\ jobs[j].kind = "more" /\ jobs[j].promise = "rejected") =>
              /\ currentPage' = jobs[j].page - 1
              /\ error' = jobs[j].value]_vars

(* C5: conductSearch with an empty or whitespace-only term arms no timer,   *)
(* issues no request, leaves searchResults empty and canInitiateRequests    *)
(* true.                                                                    *)
C5_BlankTermNoRequest ==
    [][(searchTerm # UndefinedTerm /\ IsBlank(searchTerm) /\ conductSearch) =>
          /\ timers' \subseteq timers
          /\ ~JobStarted
          /\ searchResults' = <<>>
          /\ canInitiateRequests' = TRUE]_vars

(* C6: a DelayedTask whose timer has fired can be scheduled again: the      *)
(* further schedule() arms a timer and raises no error.                     *)
C6_RescheduleAfterFire ==
    [][\A t \in TaskRefs :
          (Fired(t) /\ ScheduleTask(t)) =>
              /\ thrown' = "none"
              /\ \E tm \in timers' : tm[2] = t]_vars

(* C7: schedule() on an armed task raises 'already scheduled' and arms no   *)
(* second timer; cancel() on a task that is not armed raises no error and   *)
(* changes nothing, and leaves the handle cleared.                          *)
C7_ScheduleTwiceCancelIdle ==
    [][\A t \in TaskRefs :
          /\ (Armed(t) /\ ScheduleTask(t)) =>
                 (thrown' = "TASK ALREADY SCHEDULED" /\ UNCHANGED <<taskID, timers>>)
          /\ (~Armed(t) /\ CancelTask(t)) =>
                 (thrown' = "none" /\ UNCHANGED <<taskID, timers>> /\ taskID'[t] = 0)]_vars

(* C8: searchByKeywordWithPaging outside [START_PAGE, PAGE_LIMIT] returns   *)
(* an already rejected future whose message echoes keyword and page, arms   *)
(* no timer and never issues a request; inside the window it arms exactly   *)
(* one timer and returns an unsettled future.                               *)
C8_PagingWindow ==
    /\ [](\A j \in JobIds :
            (IsJob(jobs, j) /\ (jobs[j].page < START_PAGE \/ jobs[j].page > PAGE_LIMIT)) =>
                (jobs[j].http = "none" /\ ~TimerArmed(j)))
    /\ [][JobStarted =>
            LET job == jobs'[delayedJob']
                keyword == getFormattedInput(searchTerm)
                pageNumber == currentPage'
            IN  /\ job.page = pageNumber
                /\ IF pageNumber < START_PAGE \/ pageNumber > PAGE_LIMIT
                   THEN /\ job.promise = "rejected"
                        /\ job.value = [kind |-> "INVALID PAGING VALUE",
                                        page |-> pageNumber, keyword |-> keyword]
                        /\ timers' \subseteq timers
                        /\ job.http = "none"
                   ELSE /\ job.promise = "pending"
                        /\ Cardinality(timers' \ timers) = 1]_vars

C8_Witness ==
    \E j \in JobIds :
        /\ IsJob(jobs, j)
        /\ jobs[j].page < START_PAGE
        /\ jobs[j].promise = "rejected"
        /\ timers = {}

(* C9: at most one job started by the controller is live (its future can    *)
(* still settle) at any time.                                               *)
C9_AtMostOneLive == Cardinality({j \in JobIds : Live(j)}) <= 1

(* C10: once the handler chain of a settled job has run,                    *)
(* canInitiateRequests is true and fetchingMoreResults is false; and a job  *)
(* whose timer has fired settles in the step in which its HTTP call returns *)
(* or fails, so it is unsettled only while that call is outstanding.        *)
C10_SettleResetsGate ==
    /\ [](\A j \in JobIds :
            (IsJob(jobs, j) /\ jobs[j].http # "none" /\ jobs[j].promise = "pending") =>
                jobs[j].http = "outstanding")
    /\ [][\A j \in JobIds : HttpReturns(j) => Settled(jobs', j)]_vars
    /\ [][\A j \in JobIds :
            Settled(jobs, j) =>
                (canInitiateRequests' = TRUE /\ fetchingMoreResults' = FALSE)]_vars

C10_Witness ==
    \E j \in JobIds :
        /\ IsJob(jobs, j)
        /\ jobs[j].kind = "more"
        /\ jobs[j].http = "done"
        /\ jobs[j].handled
        /\ canInitiateRequests = TRUE
        /\ fetchingMoreResults = FALSE

(* C11: when a job settles successfully with a batch of N > 0 records,      *)
(* searchResults after the handler is searchResults before it followed by   *)
(* exactly those N records in arrival order, and canLoadMore is still true  *)
(* if it was true before.                                                   *)
C11_SuccessAppendsBatch ==
    [][\A j \in JobIds :
          (Settled(jobs, j) /\ jobs[j].promise = "resolved" /\ Len(jobs[j].value) > 0) =>
              LET N == Len(jobs[j].value)
                  before == Len(searchResults)
              IN  /\ Len(searchResults') = before + N
                  /\ SubSeq(searchResults', 1, before) = searchResults
                  /\ \A i \in 1..N :
                        searchResults'[before + i].name = <<jobs[j].term, jobs[j].page, i>>
                  /\ (canLoadMore = "true" => canLoadMore' = "true")]_vars

\* Three records on the scope, from more than one batch, one batch of two
C11_Witness ==
    /\ Len(searchResults) = 3
    /\ canLoadMore = "true"
    /\ \E i \in 1..2 :
          /\ searchResults[i].name[2] = searchResults[i + 1].name[2]
          /\ searchResults[i + 1].name[3] = 2
    /\ \E i \in 1..2 : searchResults[i].name[2] # searchResults[i + 1].name[2]

(* C12: when a job settles successfully with an empty batch, canLoadMore    *)
(* becomes false and searchResults, currentPage and error are unchanged;    *)
(* canLoadMore then stays false until the next conductSearch.               *)
C12_EmptyBatchDisablesLoadMore ==
    /\ [][\A j \in JobIds :
            (Settled(jobs, j) /\ jobs[j].promise = "resolved" /\ Len(jobs[j].value) = 0) =>
                /\ canLoadMore' = "false"
                /\ UNCHANGED <<searchResults, currentPage, error>>]_vars
    /\ [][(canLoadMore = "false" /\ canLoadMore' # "false") =>
            \E t \in Terms : conductSearchFor(t)]_vars

\* The empty batch answered a fetchMoreResults that followed a non-empty page
C12_Witness ==
    /\ canLoadMore = "false"
    /\ searchResults # <<>>
    /\ delayedJob # 0
    /\ jobs[delayedJob].kind = "more"
    /\ jobs[delayedJob].promise = "resolved"
    /\ jobs[delayedJob].value = <<>>
    /\ jobs[delayedJob].handled

(* C13: when a job settles with an error, the payload is stored in error    *)
(* and searchResults is left as it was before the error handler ran, for    *)
(* jobs started by conductSearch and by fetchMoreResults alike.             *)
C13_ErrorKeepsResults ==
    [][\A j \in JobIds :
          (Settled(jobs, j) /\ jobs[j].promise = "rejected") =>
              /\ error' = jobs[j].value
              /\ searchResults' = searchResults]_vars

\* A failed fetchMoreResults job has been handled with results on the scope
C13_Witness ==
    /\ searchResults # <<>>
    /\ delayedJob # 0
    /\ jobs[delayedJob].kind = "more"
    /\ jobs[delayedJob].promise = "rejected"
    /\ jobs[delayedJob].handled
    /\ error = jobs[delayedJob].value
    /\ error \in TransportPayloads

(* C14: in every reachable state at most one timer armed by the             *)
(* controller's jobs is pending.                                            *)
C14_AtMostOneTimer == Cardinality(timers) <= 1

\* The second of two fetchMoreResults in a row is armed, the first is gone
C14_Witness ==
    /\ Cardinality(timers) = 1
    /\ delayedJob = 2
    /\ TimerArmed(2)
    /\ ~IsJob(jobs, 1)
    /\ currentPage = START_PAGE + 2
    /\ searchResults = <<>>
    /\ canLoadMore = "undefined"

(* C15: a job cancelled while its timer is armed never runs: its timer is   *)
(* gone and nothing refers to it any more, so it issues no request and its  *)
(* future never settles. A request is issued only by the controller's       *)
(* current job, so after several conductSearch calls in a row the one       *)
(* request issued is for the last term.                                     *)
C15_CancelledArmedJobNeverRuns ==
    /\ [](\A tm \in timers : tm[2] = delayedJob)
    /\ [][\A j \in JobIds :
            (IsJob(jobs, j) /\ TimerArmed(j) /\ delayedJob' # j) =>
                /\ ~\E tm \in timers' : tm[2] = j
                /\ ~IsJob(jobs', j)]_vars
    /\ [][\A j \in JobIds :
            (IsJob(jobs, j) /\ jobs[j].http = "none"
                /\ IsJob(jobs', j) /\ jobs'[j].http = "outstanding") =>
                /\ j = delayedJob
                /\ jobs[j].term = getFormattedInput(searchTerm)]_vars

\* The request of a second search is outstanding and the first job is gone
C15_Witness ==
    /\ delayedJob = 2
    /\ jobs[2].kind = "search"
    /\ jobs[2].http = "outstanding"
    /\ jobs[2].term = getFormattedInput(searchTerm)
    /\ ~IsJob(jobs, 1)
    /\ canInitiateRequests = FALSE
    /\ searchResults = <<>>
    /\ error = NullError

(* C16: immediately after every conductSearch, currentPage = START_PAGE,    *)
(* canLoadMore is true, error is absent and searchResults is empty; if the  *)
(* formatted term is non-empty, also canInitiateRequests is false,          *)
(* fetchingMoreResults is false and a job for page START_PAGE is armed.     *)
C16_ConductSearchResets ==
    [][(searchTerm # UndefinedTerm /\ conductSearch) =>
          /\ currentPage' = START_PAGE
          /\ canLoadMore' = "true"
          /\ error' = NullError
          /\ searchResults' = <<>>
          /\ getFormattedInput(searchTerm) # <<>> =>
                /\ canInitiateRequests' = FALSE
                /\ fetchingMoreResults' = FALSE
                /\ delayedJob' # 0
                /\ jobs'[delayedJob'].page = START_PAGE
                /\ jobs'[delayedJob'].promise = "pending"
                /\ \E tm \in timers' : tm[2] = delayedJob']_vars

\* A search was started while the request of a fetchMoreResults job is out
C16_Witness ==
    /\ delayedJob # 0
    /\ jobs[delayedJob].kind = "search"
    /\ TimerArmed(delayedJob)
    /\ currentPage = START_PAGE
    /\ searchResults = <<>>
    /\ \E j \in JobIds :
          /\ jobs[j].kind = "more"
          /\ jobs[j].http = "outstanding"
          /\ jobs[j].page > START_PAGE

(* C17: canInitiateRequests is false only while the timer of some job is    *)
(* armed or its HTTP call is outstanding (or its handlers are about to      *)
(* run), so the gate cannot stay closed forever; this includes an armed job *)
(* cancelled by a conductSearch with an empty term.                         *)
C17_GateClosedOnlyWhileInFlight ==
    canInitiateRequests = FALSE =>
        \E j \in JobIds : Live(j) \/ Settled(jobs, j)

(* C18: whenever isAllowedToLoadMore() is true, an immediately following    *)
(* fetchMoreResults requests a page inside [START_PAGE, PAGE_LIMIT]: it     *)
(* arms a timer and is not answered by the out-of-range rejection.          *)
C18_AllowedFetchStaysInWindow ==
    [][(isAllowedToLoadMore /\ fetchMoreResults) =>
          /\ currentPage' \in START_PAGE..PAGE_LIMIT
          /\ jobs'[delayedJob'].page = currentPage'
          /\ jobs'[delayedJob'].promise = "pending"
          /\ \E tm \in timers' : tm[2] = delayedJob']_vars

(* C19: when fetchMoreResults is only invoked while isAllowedToLoadMore()   *)
(* is true, searchResults is always the concatenation, in page order, of    *)
(* the batches of pages START_PAGE, START_PAGE + 1, ..., k of the term of   *)
(* the most recent conductSearch.                                           *)
C19_ResultsArePagesOfLastSearch ==
    \A i \in 1..Len(searchResults) :
        LET record == searchResults[i].name
        IN  /\ record[1] = getFormattedInput(searchTerm)
            /\ IF i = 1
               THEN record[2] = START_PAGE /\ record[3] = 1
               ELSE LET previous == searchResults[i - 1].name
                    IN  \/ record[2] = previous[2] /\ record[3] = previous[3] + 1
                        \/ record[2] = previous[2] + 1 /\ record[3] = 1

(* C20: no sequence of conductSearch and fetchMoreResults calls,            *)
(* interleaved with timer firings and responses, raises 'TASK ALREADY       *)
(* SCHEDULED', and the shared dummy task is never scheduled.                *)
C20_NeverAlreadyScheduled ==
    /\ thrown # "TASK ALREADY SCHEDULED"
    /\ taskID[DummyTask] = 0
    /\ \A tm \in timers : tm[2] # DummyTask

\* The current job holds the dummy task while an earlier request is out
C20_Witness ==
    /\ delayedJob # 0
    /\ jobs[delayedJob].handle = DummyTask
    /\ \E j \in JobIds :
          /\ IsJob(jobs, j)
          /\ jobs[j].handle = j
          /\ jobs[j].http = "outstanding"

====
